---------------------------- MODULE Spec2Model ----------------------------
(***************************************************************************)
(* Model of the hyrax-pcs-commit crate: the prime-order curve interface    *)
(* (src/src/curves/mod.rs), the Pedersen committer over bytes              *)
(* (src/src/pedersen/mod.rs) and the row-wise Hyrax matrix commitment      *)
(* (src/src/iriscode_commit/mod.rs).                                       *)
(*                                                                         *)
(* BN254 is replaced by the curve of the same shape over a small field:    *)
(* y^2 = x^3 + 3 over F_283, a = 0, base point (1, 2), cofactor 1, group   *)
(* order 277 (prime, below the base-field modulus and above 255, as for    *)
(* BN254).  Points are Jacobian triples (x, y, z) as in                    *)
(* ark_ec::short_weierstrass::Projective; equality of points is the group  *)
(* equality PointEq, never equality of triples.                            *)
(***************************************************************************)
EXTENDS Integers, Sequences, FiniteSets, TLC

VARIABLES
    committer,  \* the PedersenCommitter in use, or NoCommitter
    reader,     \* Sha3XofReaderWrapper: bytes read from the XOF by the last sampling
    prng,       \* ChaCha20Rng of the last compute_commitments: [seed, pos]
    call,       \* the most recent call: operation, arguments, outcome
    prior       \* the call before it

vars == <<committer, reader, prng, call, prior>>

(***************************************************************************)
(* Base field Fq and scalar field Fr                                       *)
(***************************************************************************)
\* the curve y^2 = x^3 + a x + b
a == 0

b == 3

Q == 283

R == 277

Fq == 0 .. (Q - 1)

Fr == 0 .. (R - 1)

FqAdd(u, v) == (u + v) % Q

FqSub(u, v) == (u - v + Q) % Q

FqMul(u, v) == (u * v) % Q

FqNeg(u) == (Q - u) % Q

\* square and multiply, least significant bit of the exponent first
RECURSIVE FqPowAcc(_, _, _)
FqPowAcc(base, e, acc) ==
    IF e = 0 THEN acc
    ELSE FqPowAcc(FqMul(base, base), e \div 2,
                  IF e % 2 = 1 THEN FqMul(acc, base) ELSE acc)

FqPow(base, e) == FqPowAcc(base, e, 1)

\* Field::inverse of a nonzero element.
FqInv(u) == FqPow(u, Q - 2)

\* Field::sqrt: Some(root) when a is a square, None otherwise (Q = 3 mod 4).
NoRoot == Q

FqSqrt(u) ==
    LET root == FqPow(u, (Q + 1) \div 4)
    IN  IF FqMul(root, root) = u THEN root ELSE NoRoot

FrAdd(u, v) == (u + v) % R

\* Fr::from(u64)
FrFrom(n) == n % R

(***************************************************************************)
(* ark_ec::short_weierstrass::Projective (Jacobian coordinates)            *)
(***************************************************************************)
Pt(x, y, z) == [x |-> x, y |-> y, z |-> z]

\* Projective::zero(), which Bn256Point::default() returns
zero == Pt(1, 1, 0)

generator == Pt(1, 2, 1)

is_zero(p) == p.z = 0

\* PartialEq for Projective: the group equality
PointEq(p1, p2) ==
    IF is_zero(p1) THEN is_zero(p2)
    ELSE IF is_zero(p2) THEN FALSE
    ELSE LET z1z1 == FqMul(p1.z, p1.z)
             z2z2 == FqMul(p2.z, p2.z)
         IN  /\ FqMul(p1.x, z2z2) = FqMul(p2.x, z1z1)
             /\ FqMul(p1.y, FqMul(z2z2, p2.z)) = FqMul(p2.y, FqMul(z1z1, p1.z))

\* Group::double (dbl-2009-l, a = 0)
double(p) ==
    IF is_zero(p) THEN p
    ELSE LET aa == FqMul(p.x, p.x)
             bb == FqMul(p.y, p.y)
             cc == FqMul(bb, bb)
             t  == FqAdd(p.x, bb)
             d  == FqMul(2, FqSub(FqSub(FqMul(t, t), aa), cc))
             e  == FqMul(3, aa)
             f  == FqMul(e, e)
             x3 == FqSub(f, FqMul(2, d))
             y3 == FqSub(FqMul(e, FqSub(d, x3)), FqMul(8, cc))
             z3 == FqMul(2, FqMul(p.y, p.z))
         IN  Pt(x3, y3, z3)

\* Add for Projective (add-2007-bl)
Add(p1, p2) ==
    IF is_zero(p1) THEN p2
    ELSE IF is_zero(p2) THEN p1
    ELSE LET z1z1 == FqMul(p1.z, p1.z)
             z2z2 == FqMul(p2.z, p2.z)
             u1 == FqMul(p1.x, z2z2)
             u2 == FqMul(p2.x, z1z1)
             s1 == FqMul(FqMul(p1.y, p2.z), z2z2)
             s2 == FqMul(FqMul(p2.y, p1.z), z1z1)
         IN  IF u1 = u2 /\ s1 = s2 THEN double(p1)
             ELSE LET h == FqSub(u2, u1)
                      i == FqMul(FqMul(2, h), FqMul(2, h))
                      j == FqMul(h, i)
                      r == FqMul(2, FqSub(s2, s1))
                      v == FqMul(u1, i)
                      x3 == FqSub(FqSub(FqMul(r, r), j), FqMul(2, v))
                      y3 == FqSub(FqMul(r, FqSub(v, x3)),
                                  FqMul(2, FqMul(s1, j)))
                      zs == FqAdd(p1.z, p2.z)
                      z3 == FqMul(FqSub(FqSub(FqMul(zs, zs), z1z1), z2z2), h)
                  IN  Pt(x3, y3, z3)

Neg(p) == Pt(p.x, FqNeg(p.y), p.z)

\* Mul<Scalar>: double-and-add over the bits of the scalar, most significant first
RECURSIVE Mul(_, _)
Mul(p, k) ==
    IF k = 0 THEN zero
    ELSE LET d == double(Mul(p, k \div 2))
         IN  IF k % 2 = 1 THEN Add(d, p) ELSE d

\* the Jacobian x and y taken for the affine coordinates
into_affine_raw(p) == <<p.x, p.y>>

\* CurveGroup::into_affine of a non-identity point
into_affine(p) ==
    IF p.z = 1 THEN <<p.x, p.y>>
    ELSE LET zinv == FqInv(p.z)
             zinv2 == FqMul(zinv, zinv)
         IN  <<FqMul(p.x, zinv2), FqMul(p.y, FqMul(zinv2, zinv))>>

None == <<>>

affine_coordinates(p) == IF is_zero(p) THEN None ELSE into_affine(p)

projective_coordinates(p) ==
    IF affine_coordinates(p) # None
    THEN <<affine_coordinates(p)[1], affine_coordinates(p)[2], 1>>
    ELSE <<0, 1, 0>>

\* Affine::get_ys_from_x_unchecked: None, or the two roots, the smaller first
get_ys_from_x_unchecked(x) ==
    LET y == FqSqrt(FqAdd(FqMul(FqMul(x, x), x), b))
    IN  IF y = NoRoot THEN None
        ELSE IF y < FqNeg(y) THEN <<y, FqNeg(y)>> ELSE <<FqNeg(y), y>>

\* PrimeOrderCurve::is_on_curve for Bn256Point
is_on_curve(p) ==
    IF is_zero(p) THEN TRUE
    ELSE LET x == affine_coordinates(p)[1]
             y == affine_coordinates(p)[2]
         IN  FqAdd(FqMul(FqAdd(FqMul(x, x), a), x), b) = y

(***************************************************************************)
(* Byte strings and the two byte streams                                   *)
(***************************************************************************)
Byte == 0 .. 255

\* the sum of s[lo .. hi], by halving
RECURSIVE SeqSum(_, _, _)
SeqSum(s, lo, hi) ==
    IF lo > hi THEN 0
    ELSE IF lo = hi THEN s[lo]
    ELSE SeqSum(s, lo, (lo + hi) \div 2) + SeqSum(s, (lo + hi) \div 2 + 1, hi)

\* PrimeField::from_le_bytes_mod_order into the base field:
\* the little-endian value of the bytes, reduced mod Q
X_DRAW_BYTES == 64

\* the powers 256^(i-1) mod Q, the weights of the little-endian bytes
Pow256 == [i \in 1 .. X_DRAW_BYTES |-> FqPow(256 % Q, i - 1)]

FqFromLeBytesModOrder(bytes) ==
    SeqSum([i \in 1 .. Len(bytes) |-> (bytes[i] * Pow256[i]) % Q],
           1, Len(bytes)) % Q

\* the permutation both byte streams are built from (a stand-in for Keccak / ChaCha)
Mix(w) == ((w + 3) * (w + 11) + 12345) % 32749

\* Shake256::default().input(seed): the sponge state after absorbing the seed
Shake256(bytes) ==
    Mix(SeqSum([i \in 1 .. Len(bytes) |-> Mix(257 * i + bytes[i])],
               1, Len(bytes)) % 32749)

\* byte k of the XOF output of sponge state h
XofByte(h, k) == (Mix(Mix((h + 7919 * k) % 32749)) \div 16) % 256

U32_BYTES == 4

\* a reader that resumes where the previous sampling stopped
xof_result_resumed(h) == [h |-> h, pos |-> reader.pos]

\* shake.xof_result() wrapped by Sha3XofReaderWrapper::new: nothing read yet
xof_result(h) == [h |-> h, pos |-> 0]

\* RngCore::fill_bytes for Sha3XofReaderWrapper: the next n bytes of the stream
fill_bytes(rd, n) == [i \in 1 .. n |-> XofByte(rd.h, rd.pos + i - 1)]

\* RngCore::next_u32 for Sha3XofReaderWrapper: 4 bytes, little endian.  The
\* top bit is dropped to stay within the integers of the model checker; the
\* callers read the parity only.
next_u32(rd) ==
    LET buffer == fill_bytes(rd, U32_BYTES)
    IN  buffer[1] + 256 * buffer[2] + 65536 * buffer[3] + 16777216 * (buffer[4] % 128)

advance(rd, n) == [rd EXCEPT !.pos = rd.pos + n]

(***************************************************************************)
(* PrimeOrderCurve::random for Bn256Point                                  *)
(***************************************************************************)
\* y.into_bigint().to_bytes_le()[0] & 1
Parity(y) == (y % 256) % 2

\* a loop body that returns the root of the parity that was not drawn
random_attempt_other_root(rd) ==
    LET x_coord == FqFromLeBytesModOrder(fill_bytes(rd, X_DRAW_BYTES))
        rd1 == advance(rd, X_DRAW_BYTES)
        yparity_wanted == next_u32(rd1) % 2
        ys == get_ys_from_x_unchecked(x_coord)
    IN  IF ys = None
        THEN [found |-> FALSE, point |-> zero, rd |-> advance(rd1, U32_BYTES)]
        ELSE [found |-> TRUE,
              point |-> Pt(x_coord,
                           IF yparity_wanted = Parity(ys[1]) THEN ys[2] ELSE ys[1],
                           1),
              rd |-> advance(rd1, U32_BYTES)]

\* One pass of the loop body: the reader after the two draws, and the point
\* returned (found = FALSE when x has no square root and the loop repeats).
random_attempt(rd) ==
    LET random_bytes == fill_bytes(rd, X_DRAW_BYTES)
        x_coord == FqFromLeBytesModOrder(random_bytes)
        rd1 == advance(rd, X_DRAW_BYTES)
        yparity_wanted == next_u32(rd1) % 2
        rd2 == advance(rd1, U32_BYTES)
        ys == get_ys_from_x_unchecked(x_coord)
    IN  IF ys = None
        THEN [found |-> FALSE, point |-> zero, rd |-> rd2]
        ELSE [found |-> TRUE,
              point |-> Pt(x_coord,
                           IF yparity_wanted = Parity(ys[1]) THEN ys[1] ELSE ys[2],
                           1),
              rd |-> rd2]

RECURSIVE random(_)
random(rd) ==
    LET t == random_attempt(rd)
    IN  IF t.found THEN [point |-> t.point, rd |-> t.rd] ELSE random(t.rd)

(***************************************************************************)
(* Serialization of points                                                 *)
(***************************************************************************)
UNCOMPRESSED_CURVE_POINT_BYTEWIDTH == 65

COMPRESSED_CURVE_POINT_BYTEWIDTH == 34

COORD_BYTEWIDTH == 32

\* into_bigint().to_bytes_le(): the width little-endian bytes of value
RECURSIVE to_bytes_le(_, _)
to_bytes_le(value, width) ==
    IF width = 0 THEN <<>>
    ELSE <<value % 256>> \o to_bytes_le(value \div 256, width - 1)

\* the identity as the decoders build it
decoded_identity == Pt(0, 1, 0)

to_bytes_uncompressed(p) ==
    IF affine_coordinates(p) # None
    THEN <<0>> \o to_bytes_le(affine_coordinates(p)[1], COORD_BYTEWIDTH)
             \o to_bytes_le(affine_coordinates(p)[2], COORD_BYTEWIDTH)
    ELSE [i \in 1 .. 65 |-> 1]

to_bytes_compressed(p) ==
    IF affine_coordinates(p) # None
    THEN <<0>> \o to_bytes_le(affine_coordinates(p)[1], COORD_BYTEWIDTH)
             \o <<Parity(affine_coordinates(p)[2])>>
    ELSE [i \in 1 .. 34 |-> 1]

\* the point from_bytes_uncompressed builds from bytes[1..33] and bytes[33..]
uncompressed_point(bytes) ==
    Pt(FqFromLeBytesModOrder(SubSeq(bytes, 2, 1 + COORD_BYTEWIDTH)),
       FqFromLeBytesModOrder(SubSeq(bytes, 2 + COORD_BYTEWIDTH, Len(bytes))),
       1)

\* a decoder that tests the curve equation before it looks at the tag
from_bytes_uncompressed_panics_any_tag(bytes) ==
    \/ Len(bytes) # UNCOMPRESSED_CURVE_POINT_BYTEWIDTH
    \/ ~is_on_curve(uncompressed_point(bytes))

\* the two assertions of from_bytes_uncompressed: the width, and is_on_curve
from_bytes_uncompressed_panics(bytes) ==
    \/ Len(bytes) # UNCOMPRESSED_CURVE_POINT_BYTEWIDTH
    \/ bytes[1] # 1 /\ ~is_on_curve(uncompressed_point(bytes))

\* from_bytes_uncompressed when it does not panic
from_bytes_uncompressed(bytes) ==
    IF bytes[1] = 1 THEN decoded_identity ELSE uncompressed_point(bytes)

\* the x coordinate from_bytes_compressed reads from bytes[1..33]
compressed_x(bytes) == FqFromLeBytesModOrder(SubSeq(bytes, 2, 1 + COORD_BYTEWIDTH))

\* the assertion on the width, and the unwrap of get_ys_from_x_unchecked
from_bytes_compressed_panics(bytes) ==
    \/ Len(bytes) # COMPRESSED_CURVE_POINT_BYTEWIDTH
    \/ bytes[1] # 1 /\ get_ys_from_x_unchecked(compressed_x(bytes)) = None

\* a decoder that never takes the second root
from_bytes_compressed_first_root(bytes) ==
    IF bytes[1] = 1 THEN decoded_identity
    ELSE Pt(compressed_x(bytes), get_ys_from_x_unchecked(compressed_x(bytes))[1], 1)

\* from_bytes_compressed when it does not panic; the xor of two bytes is 0
\* exactly when they are equal
from_bytes_compressed(bytes) ==
    IF bytes[1] = 1 THEN decoded_identity
    ELSE LET y_sign_byte == bytes[34]
             ys == get_ys_from_x_unchecked(compressed_x(bytes))
             y_coord == IF Parity(ys[1]) = y_sign_byte THEN ys[1] ELSE ys[2]
         IN  Pt(compressed_x(bytes), y_coord, 1)

(***************************************************************************)
(* PedersenCommitter                                                       *)
(***************************************************************************)
U8_BITWIDTH == 8

SEED_LEN == 32

Prefix(s, n) == [i \in 1 .. n |-> s[i]]

\* the generators drawn one after the other from one reader
RECURSIVE draw_generators(_, _)
draw_generators(rd, n) ==
    IF n = 0 THEN [points |-> <<>>, rd |-> rd]
    ELSE LET d == random(rd)
             rest == draw_generators(d.rd, n - 1)
         IN  [points |-> <<d.point>> \o rest.points, rd |-> rest.rd]

\* the whole public string instead of its first SEED_LEN bytes
public_string_whole(public_string) == public_string

\* the bytes of the public string that seed the XOF
public_string_array(public_string) == Prefix(public_string, SEED_LEN)

\* a sampling that absorbs every byte of the public string
sample_generators_absorb_all(num_generators, public_string) ==
    draw_generators(xof_result(Shake256(public_string)), num_generators)

\* sample_generators after its assertion: the points and the reader left behind
sample_generators(num_generators, public_string) ==
    draw_generators(xof_result(Shake256(public_string_array(public_string))),
                    num_generators)

\* a table whose entries are never doubled
RECURSIVE precompute_doublings_stuck(_, _)
precompute_doublings_stuck(base, bitwidth) ==
    IF bitwidth = 0 THEN <<>>
    ELSE <<base>> \o precompute_doublings_stuck(base, bitwidth - 1)

\* precompute_doublings: base, 2 base, 4 base, ..., 2^(bitwidth - 1) base
RECURSIVE precompute_doublings(_, _)
precompute_doublings(base, bitwidth) ==
    IF bitwidth = 0 THEN <<>>
    ELSE <<base>> \o precompute_doublings(double(base), bitwidth - 1)

\* a committer that takes the last point drawn as its blinding generator
new_from_blinding_last(all_generators) ==
    LET generators_g_i == SubSeq(all_generators, 1, Len(all_generators) - 1)
    IN  [generators |-> generators_g_i,
         blinding_generator |-> all_generators[Len(all_generators)],
         generator_doublings |->
             [i \in 1 .. Len(generators_g_i) |->
                 precompute_doublings(generators_g_i[i], U8_BITWIDTH)]]

new_from(all_generators) ==
    LET generators_g_i == Tail(all_generators)
    IN  [generators |-> generators_g_i,
         blinding_generator |-> all_generators[1],
         generator_doublings |->
             [i \in 1 .. Len(generators_g_i) |->
                 precompute_doublings(generators_g_i[i], U8_BITWIDTH)]]

\* PedersenCommitter::new, for a public string of at least SEED_LEN bytes
new(num_generators, public_string) ==
    new_from(sample_generators(num_generators + 1, public_string).points)

\* the reader sample_generators drops when new returns
reader_after_new(num_generators, public_string) ==
    sample_generators(num_generators + 1, public_string).rd

\* the bits of value, most significant first
binary_decomposition_be(value) ==
    [i \in 1 .. 8 |-> (value \div (2 ^ (8 - i))) % 2 = 1]

\* binary_decomposition_le::<u8>: bit i - 1 of value at index i
binary_decomposition_le(value) ==
    [i \in 1 .. 8 |-> (value \div (2 ^ (i - 1))) % 2 = 1]

\* the inner closure of vector_commit: the selected doublings of one generator
RECURSIVE add_selected(_, _, _)
add_selected(bits, generator_doublings, i) ==
    IF i = 0 THEN zero
    ELSE LET acc == add_selected(bits, generator_doublings, i - 1)
         IN  IF bits[i] THEN Add(acc, generator_doublings[i]) ELSE acc

byte_commit(input, generator_doublings) ==
    add_selected(binary_decomposition_le(input), generator_doublings, 8)

\* a commitment that takes the table of the first generator at every position
RECURSIVE unblinded_commit_first_table(_, _, _)
unblinded_commit_first_table(c, message, n) ==
    IF n = 0 THEN zero
    ELSE Add(unblinded_commit_first_table(c, message, n - 1),
             byte_commit(message[n], c.generator_doublings[1]))

\* fold(C::zero(), |acc, value| acc + value) over the first n zipped pairs
RECURSIVE unblinded_commit(_, _, _)
unblinded_commit(c, message, n) ==
    IF n = 0 THEN zero
    ELSE Add(unblinded_commit(c, message, n - 1),
             byte_commit(message[n], c.generator_doublings[n]))

\* an assertion that also rejects the messages that fill the committer
vector_commit_panics_at_width(c, message) == ~(Len(message) < Len(c.generators))

\* assert!(message.len() <= self.generators.len())
vector_commit_panics(c, message) == ~(Len(message) <= Len(c.generators))

\* a commitment without its blinding term
vector_commit_unblinded(c, message, blinding) ==
    unblinded_commit(c, message, Len(message))

\* PedersenCommitter::vector_commit when its assertion holds
vector_commit(c, message, blinding) ==
    Add(unblinded_commit(c, message, Len(message)),
        Mul(c.blinding_generator, blinding))

(***************************************************************************)
(* Public strings                                                          *)
(***************************************************************************)
\* "Modulus <3 Worldcoin: ZKML Self-Custody Edition"
PUBLIC_STRING ==
    << 77, 111, 100, 117, 108, 117, 115, 32, 60, 51, 32, 87,
       111, 114, 108, 100, 99, 111, 105, 110, 58, 32, 90, 75,
       77, 76, 32, 83, 101, 108, 102, 45, 67, 117, 115, 116,
       111, 100, 121, 32, 69, 100, 105, 116, 105, 111, 110 >>

\* "accountable magic something something"
TEST_STRING ==
    << 97, 99, 99, 111, 117, 110, 116, 97, 98, 108, 101, 32,
       109, 97, 103, 105, 99, 32, 115, 111, 109, 101, 116, 104,
       105, 110, 103, 32, 115, 111, 109, 101, 116, 104, 105, 110,
       103 >>

\* the string with the byte at index idx replaced
WithByte(str, idx, byte) == [str EXCEPT ![idx] = byte]

\* The strings the committer is built from: the two strings of the crate,
\* and the first with one byte changed inside the seed, with one byte
\* changed after the seed, cut to the seed and cut below the seed.
PublicStrings ==
    { PUBLIC_STRING,
      TEST_STRING,
      WithByte(PUBLIC_STRING, SEED_LEN, 120),
      WithByte(PUBLIC_STRING, SEED_LEN + 1, 120),
      SubSeq(PUBLIC_STRING, 1, SEED_LEN),
      SubSeq(PUBLIC_STRING, 1, SEED_LEN - 1) }

MaxN == 2

NoCommitter ==
    [generators |-> <<>>, blinding_generator |-> zero, generator_doublings |-> <<>>]

NoReader == [h |-> 0, pos |-> 0]

NoPrng == [key |-> 0, pos |-> 0]

NoCall == [op |-> "none", panicked |-> FALSE]

(***************************************************************************)
(* Building committers                                                     *)
(***************************************************************************)
InitGen ==
    /\ committer = NoCommitter
    /\ reader = NoReader
    /\ prng = NoPrng
    /\ call = NoCall
    /\ prior = NoCall

\* PedersenCommitter::new(num_generators, public_string); sample_generators
\* asserts that the public string has at least SEED_LEN bytes.
New(num_generators, public_string) ==
    /\ prior' = call
    /\ UNCHANGED prng
    /\ IF Len(public_string) >= SEED_LEN
       THEN /\ committer' = new(num_generators, public_string)
            /\ reader' = reader_after_new(num_generators, public_string)
            /\ call' = [op |-> "new", num_generators |-> num_generators,
                        public_string |-> public_string, panicked |-> FALSE,
                        result |-> committer']
       ELSE /\ call' = [op |-> "new", num_generators |-> num_generators,
                        public_string |-> public_string, panicked |-> TRUE,
                        result |-> NoCommitter]
            /\ UNCHANGED <<committer, reader>>

NextGen == \E num_generators \in 0 .. MaxN, public_string \in PublicStrings :
               New(num_generators, public_string)

SpecGen == InitGen /\ [][NextGen]_vars

\* both of the last two calls built a committer
BothBuilt ==
    /\ prior.op = "new" /\ ~prior.panicked
    /\ call.op = "new" /\ ~call.panicked

\* the generator set of a committer: the blinding generator and the message generators
GeneratorSet(c) == <<c.blinding_generator>> \o c.generators

C9_OnlyFirst32BytesUsed ==
    (/\ BothBuilt
     /\ prior.num_generators = call.num_generators
     /\ Prefix(prior.public_string, SEED_LEN) = Prefix(call.public_string, SEED_LEN))
        => prior.result = call.result

C9_Witness ==
    /\ BothBuilt
    /\ prior.num_generators = call.num_generators
    /\ call.num_generators > 0
    /\ Len(prior.public_string) > SEED_LEN
    /\ Len(call.public_string) > SEED_LEN
    /\ prior.public_string # call.public_string
    /\ Prefix(prior.public_string, SEED_LEN) = Prefix(call.public_string, SEED_LEN)
    /\ prior.result = call.result

\* the reader after k calls of Curve::random; a reader is worked out (its
\* position is looked at) before the next call reads from it
RECURSIVE reader_after_draws(_, _)
reader_after_draws(rd, k) ==
    IF k = 0 THEN rd
    ELSE LET before == reader_after_draws(rd, k - 1)
         IN  IF before.pos >= 0 THEN random(before).rd ELSE before

\* the point the call of Curve::random number k + 1 returns on the stream of rd
nth_draw(rd, k) ==
    LET before == reader_after_draws(rd, k)
    IN  IF before.pos >= 0 THEN random(before).point ELSE zero

\* C26: after new(N, s) the blinding generator is the first point drawn from
\* the XOF stream of the seed and generator i is draw number i + 1; there are
\* exactly N generators and N rows of doublings, each row of exactly 8
\* entries, entry j of row i being 2^j * G_i (j from 0).
C26_CommitterShape ==
    (call.op = "new" /\ ~call.panicked)
        => LET c == call.result
               stream == xof_result(Shake256(public_string_array(call.public_string)))
           IN  /\ c.blinding_generator = nth_draw(stream, 0)
               /\ Len(c.generators) = call.num_generators
               /\ \A i \in 1 .. call.num_generators :
                      c.generators[i] = nth_draw(stream, i)
               /\ Len(c.generator_doublings) = call.num_generators
               /\ \A i \in 1 .. call.num_generators :
                      /\ Len(c.generator_doublings[i]) = 8
                      /\ \A j \in 0 .. 7 :
                             PointEq(c.generator_doublings[i][j + 1],
                                     Mul(c.generators[i], 2 ^ j))
               /\ committer = c

C26_Witness ==
    /\ call.op = "new"
    /\ ~call.panicked
    /\ call.num_generators = 2
    /\ Len(committer.generators) = 2
    /\ committer.blinding_generator # committer.generators[1]
    /\ committer.generators[1] # committer.generators[2]
    /\ Len(committer.generator_doublings[2]) = 8
    /\ PointEq(committer.generator_doublings[2][8], Mul(committer.generators[2], 128))

(***************************************************************************)
(* Committing to byte messages                                             *)
(***************************************************************************)
\* the byte values messages are made of
ByteSamples == {5, 250}

\* the blinding factors used
BlindingSamples == {4, 5}

\* all messages over ByteSamples of length n
RECURSIVE MessagesOfLen(_)
MessagesOfLen(n) ==
    IF n = 0 THEN {<<>>}
    ELSE {Append(m, byte) : m \in MessagesOfLen(n - 1), byte \in ByteSamples}

\* the messages offered to a committer of width n: every message over
\* ByteSamples that fits, the all-zero message, and one that is a byte too long
Messages(n) ==
    UNION {MessagesOfLen(len) : len \in 0 .. n}
        \cup {[idx \in 1 .. n |-> 0], [idx \in 1 .. n + 1 |-> 5]}

InitCommit ==
    /\ \E num_generators \in 0 .. MaxN :
           /\ committer = new(num_generators, TEST_STRING)
           /\ reader = reader_after_new(num_generators, TEST_STRING)
    /\ prng = NoPrng
    /\ call = NoCall
    /\ prior = NoCall

\* committer.vector_commit(message, blinding)
VectorCommit(message, blinding) ==
    /\ prior' = call
    /\ UNCHANGED <<committer, reader, prng>>
    /\ IF vector_commit_panics(committer, message)
       THEN call' = [op |-> "vector_commit", message |-> message,
                     blinding |-> blinding, panicked |-> TRUE, result |-> zero]
       ELSE call' = [op |-> "vector_commit", message |-> message,
                     blinding |-> blinding, panicked |-> FALSE,
                     result |-> vector_commit(committer, message, blinding)]

NextCommit ==
    \E message \in Messages(Len(committer.generators)), blinding \in BlindingSamples :
        VectorCommit(message, blinding)

SpecCommit == InitCommit /\ [][NextCommit]_vars

\* sum over i < n of (message_i as a scalar) * G_i, by direct scalar multiplication
RECURSIVE direct_sum(_, _, _)
direct_sum(c, message, n) ==
    IF n = 0 THEN zero
    ELSE Add(direct_sum(c, message, n - 1),
             Mul(c.generators[n], FrFrom(message[n])))

Committed(record) == record.op = "vector_commit" /\ ~record.panicked

\* C1: for a message no longer than the committer is wide, vector_commit
\* (bit decomposition and doubling table) equals the sum of m_i * G_i plus
\* b * H computed by direct scalar multiplication.
C1_DoublingTableEqualsDirect ==
    Committed(call)
        => PointEq(call.result,
                   Add(direct_sum(committer, call.message, Len(call.message)),
                       Mul(committer.blinding_generator, call.blinding)))

C1_Witness ==
    /\ Committed(call)
    /\ Len(call.message) = MaxN
    /\ \E idx \in 1 .. MaxN : call.message[idx] = 250
    /\ \E idx \in 1 .. MaxN : call.message[idx] = 5
    /\ PointEq(call.result,
               Add(direct_sum(committer, call.message, Len(call.message)),
                   Mul(committer.blinding_generator, call.blinding)))

\* the bytewise sum of two messages of equal length
BytewiseSum(m1, m2) == [idx \in 1 .. Len(m1) |-> m1[idx] + m2[idx]]

\* two committed messages of equal length whose bytewise sum fits in a byte
Summable ==
    /\ Committed(prior)
    /\ Committed(call)
    /\ Len(prior.message) = Len(call.message)
    /\ \A idx \in 1 .. Len(call.message) : prior.message[idx] + call.message[idx] <= 255

\* C5: for messages m1, m2 of equal length whose bytewise sum has no byte
\* above 255, commit(m1, b1) + commit(m2, b2) = commit(m1 + m2, b1 + b2).
C5_Linearity ==
    Summable
        => PointEq(Add(prior.result, call.result),
                   vector_commit(committer,
                                 BytewiseSum(prior.message, call.message),
                                 FrAdd(prior.blinding, call.blinding)))

C5_Witness ==
    /\ Summable
    /\ Len(call.message) = MaxN
    /\ prior.message # call.message
    /\ prior.blinding # call.blinding
    /\ \E idx \in 1 .. MaxN : prior.message[idx] + call.message[idx] = 255
    /\ PointEq(Add(prior.result, call.result),
               vector_commit(committer,
                             BytewiseSum(prior.message, call.message),
                             FrAdd(prior.blinding, call.blinding)))

\* C17: vector_commit panics, and returns no commitment, for a message longer
\* than the number of message generators; it returns a commitment for every
\* message of length at most N.
C17_TooLongMessagePanics ==
    call.op = "vector_commit"
        => (call.panicked <=> Len(call.message) > Len(committer.generators))

C17_Witness ==
    /\ call.op = "vector_commit"
    /\ call.panicked
    /\ Len(call.message) = Len(committer.generators) + 1
    /\ Committed(prior)
    /\ Len(prior.message) = Len(committer.generators)
    /\ Len(committer.generators) = 1

\* the blinding factors a commitment is compared under: those used, none, one
\* and the largest scalar
OtherBlindings == BlindingSamples \cup {0, 1, R - 1}

\* C21: for a committer built by PedersenCommitter::new, a message m and two
\* scalars b1 # b2, vector_commit(m, b1) and vector_commit(m, b2) are different
\* points: against the commitment returned, and against the commitment of the
\* call before it when that was for the same message.
C21_BlindingDependence ==
    Committed(call)
        => /\ \A blinding \in OtherBlindings \ {call.blinding} :
                  ~PointEq(call.result,
                           vector_commit(committer, call.message, blinding))
           /\ (Committed(prior) /\ prior.message = call.message
                   /\ prior.blinding # call.blinding)
                  => ~PointEq(prior.result, call.result)

C21_Witness ==
    /\ Committed(prior)
    /\ Committed(call)
    /\ Len(committer.generators) = 2
    /\ prior.message = call.message
    /\ Len(call.message) = 2
    /\ prior.blinding = 4
    /\ call.blinding = 5
    /\ ~PointEq(prior.result, call.result)

(***************************************************************************)
(* Permuted messages and permuted committers                               *)
(***************************************************************************)
MaxWidth == 3

\* the permutations of 1 .. n
IndexPermutations(n) ==
    {pi \in [1 .. n -> 1 .. n] : \A i, j \in 1 .. n : pi[i] = pi[j] => i = j}

\* the message reordered: position i holds message[pi[i]]
permuted_message(message, pi) == [i \in 1 .. Len(message) |-> message[pi[i]]]

\* a committer whose generators are reordered and whose tables are left as
\* they were
permuted_committer_stale_doublings(c, pi) ==
    [generators |->
         [i \in 1 .. Len(c.generators) |->
             IF i <= Len(pi) THEN c.generators[pi[i]] ELSE c.generators[i]],
     blinding_generator |-> c.blinding_generator,
     generator_doublings |-> c.generator_doublings]

\* The committer with its first Len(pi) message generators reordered by pi,
\* each with its doubling table, and the same blinding generator.
permuted_committer(c, pi) ==
    [generators |->
         [i \in 1 .. Len(c.generators) |->
             IF i <= Len(pi) THEN c.generators[pi[i]] ELSE c.generators[i]],
     blinding_generator |-> c.blinding_generator,
     generator_doublings |->
         [i \in 1 .. Len(c.generators) |->
             IF i <= Len(pi)
             THEN c.generator_doublings[pi[i]]
             ELSE c.generator_doublings[i]]]

\* the message of test_permutation, and one of three bytes
PermutationMessages == {<<5, 7>>, <<5, 7, 47>>}

\* every reordering of these messages
ReorderedMessages ==
    UNION {{permuted_message(message, pi) : pi \in IndexPermutations(Len(message))} :
              message \in PermutationMessages}

InitPermute ==
    /\ \E num_generators \in 0 .. MaxWidth :
           /\ committer = new(num_generators, TEST_STRING)
           /\ reader = reader_after_new(num_generators, TEST_STRING)
    /\ prng = NoPrng
    /\ call = NoCall
    /\ prior = NoCall

\* permuted_committer.vector_commit(&permuted_message, &blinding_factor)
VectorCommitPermuted(pi, message, blinding) ==
    /\ prior' = call
    /\ UNCHANGED <<committer, reader, prng>>
    /\ IF vector_commit_panics(committer, message)
       THEN call' = [op |-> "vector_commit_permuted", message |-> message,
                     pi |-> pi, blinding |-> blinding, panicked |-> TRUE,
                     result |-> zero]
       ELSE call' = [op |-> "vector_commit_permuted", message |-> message,
                     pi |-> pi, blinding |-> blinding, panicked |-> FALSE,
                     result |-> vector_commit(permuted_committer(committer, pi),
                                              permuted_message(message, pi),
                                              blinding)]

NextPermute ==
    \/ \E message \in ReorderedMessages, blinding \in BlindingSamples :
           VectorCommit(message, blinding)
    \/ \E message \in PermutationMessages, blinding \in BlindingSamples :
           \E pi \in IndexPermutations(Len(message)) :
               VectorCommitPermuted(pi, message, blinding)

SpecPermute == InitPermute /\ [][NextPermute]_vars

\* The last two calls committed, with one committer and one blinding factor,
\* to a message and to a reordering of it that is a different byte sequence.
PermutedPair ==
    /\ Committed(prior)
    /\ Committed(call)
    /\ prior.blinding = call.blinding
    /\ prior.message # call.message
    /\ \E pi \in IndexPermutations(Len(prior.message)) :
           call.message = permuted_message(prior.message, pi)

Transposed(m1, m2) ==
    /\ Len(m1) = Len(m2)
    /\ \E i, j \in 1 .. Len(m1) :
           /\ i < j
           /\ m1[i] # m1[j]
           /\ m2 = [m1 EXCEPT ![i] = m1[j], ![j] = m1[i]]
           /\ ~PointEq(committer.generators[i], committer.generators[j])

C23_SimultaneousPermutationPreserves ==
    (call.op = "vector_commit_permuted" /\ ~call.panicked)
        => /\ PointEq(call.result,
                      vector_commit(committer, call.message, call.blinding))
           /\ (Committed(prior) /\ prior.message = call.message
                   /\ prior.blinding = call.blinding)
                  => PointEq(prior.result, call.result)

C23_Witness ==
    /\ call.op = "vector_commit_permuted"
    /\ ~call.panicked
    /\ Committed(prior)
    /\ prior.message = <<5, 7>>
    /\ call.message = <<5, 7>>
    /\ call.pi = <<2, 1>>
    /\ prior.blinding = 4
    /\ call.blinding = 4
    /\ PointEq(prior.result, call.result)

(***************************************************************************)
(* ChaCha20Rng and the blinding factors                                    *)
(***************************************************************************)
SCALAR_ELEM_BYTEWIDTH == 32

\* the key schedule: the cipher state a 32-byte seed sets up
ChaChaKey(seed) ==
    Mix(SeqSum([i \in 1 .. Len(seed) |-> Mix(263 * i + seed[i] + 1)],
               1, Len(seed)) % 32749)

\* byte k of the key stream
PrngByte(key, k) == (Mix(Mix((key + 6151 * k + 1) % 32749)) \div 8) % 256

\* a generator that resumes where the previous one stopped
from_seed_resumed(seed) == [key |-> ChaChaKey(seed), pos |-> prng.pos]

\* ChaCha20Rng::from_seed: the key stream of the seed, from its first byte
from_seed(seed) == [key |-> ChaChaKey(seed), pos |-> 0]

\* One pass of Fr::rand: SCALAR_ELEM_BYTEWIDTH bytes are drawn, the bits
\* above the bit length of R are cleared, and the value is kept if below R.
scalar_attempt(rng) ==
    LET low == PrngByte(rng.key, rng.pos) + 256 * PrngByte(rng.key, rng.pos + 1)
        candidate == low % 512
    IN  [found |-> candidate < R, scalar |-> candidate,
         rng |-> [rng EXCEPT !.pos = rng.pos + SCALAR_ELEM_BYTEWIDTH]]

\* C::Scalar::rand(&mut prng)
RECURSIVE scalar_rand(_)
scalar_rand(rng) ==
    LET t == scalar_attempt(rng)
    IN  IF t.found THEN [scalar |-> t.scalar, rng |-> t.rng] ELSE scalar_rand(t.rng)

\* (0..n_rows).map(|_idx| C::Scalar::rand(&mut prng)).collect_vec()
\* the scalars listed from the last drawn to the first
RECURSIVE draw_scalars_reversed(_, _)
draw_scalars_reversed(rng, n) ==
    IF n = 0 THEN [scalars |-> <<>>, rng |-> rng]
    ELSE LET d == scalar_rand(rng)
             rest == draw_scalars_reversed(d.rng, n - 1)
         IN  [scalars |-> rest.scalars \o <<d.scalar>>, rng |-> rest.rng]

RECURSIVE draw_scalars(_, _)
draw_scalars(rng, n) ==
    IF n = 0 THEN [scalars |-> <<>>, rng |-> rng]
    ELSE LET d == scalar_rand(rng)
             rest == draw_scalars(d.rng, n - 1)
         IN  [scalars |-> <<d.scalar>> \o rest.scalars, rng |-> rest.rng]

(***************************************************************************)
(* compute_commitments                                                     *)
(***************************************************************************)
RECURSIVE Pow2AtLeast(_, _)
Pow2AtLeast(n, p) == IF p >= n THEN p ELSE Pow2AtLeast(n, 2 * p)

\* the smallest power of two above n
next_power_of_two_above(n) == Pow2AtLeast(n + 1, 1)

\* usize::next_power_of_two: the smallest power of two >= n (1 for n = 0)
next_power_of_two(n) == Pow2AtLeast(n, 1)

\* the data as given, without padding
data_vec_unpadded(data) == data

\* the data, padded with zeros to the nearest power of two
data_vec(data) ==
    data \o [i \in 1 .. next_power_of_two(Len(data)) - Len(data) |-> 0]

Min(m, n) == IF m <= n THEN m ELSE n

\* slice::chunks(n_cols) for n_cols > 0: the last chunk may be shorter
chunks(bytes, n_cols) ==
    [row \in 1 .. (Len(bytes) + n_cols - 1) \div n_cols |->
        SubSeq(bytes, (row - 1) * n_cols + 1, Min(row * n_cols, Len(bytes)))]

\* rows committed under the blinding factors taken from the last to the first
commit_rows_reversed(c, row_chunks, blinding_factors) ==
    [row \in 1 .. Min(Len(row_chunks), Len(blinding_factors)) |->
        vector_commit(c, row_chunks[row],
                      blinding_factors[Len(blinding_factors) + 1 - row])]

\* row_chunks.zip(blinding_factors.iter()).map(vector_commit).collect_vec()
commit_rows(c, row_chunks, blinding_factors) ==
    [row \in 1 .. Min(Len(row_chunks), Len(blinding_factors)) |->
        vector_commit(c, row_chunks[row], blinding_factors[row])]

\* the division data_vec.len() / n_cols panics when the committer has no generators
compute_commitments_panics(vector_committer) == Len(vector_committer.generators) = 0

\* the ChaCha20Rng after the blinding factors are drawn
prng_after(data, vector_committer, blinding_factor_seed) ==
    draw_scalars(from_seed(blinding_factor_seed),
                 Len(data_vec(data)) \div Len(vector_committer.generators)).rng

\* compute_commitments when it does not panic
compute_commitments(data, vector_committer, blinding_factor_seed) ==
    LET n_cols == Len(vector_committer.generators)
        n_rows == Len(data_vec(data)) \div n_cols
        blinding_factors == draw_scalars(from_seed(blinding_factor_seed), n_rows).scalars
    IN  [commitment |-> commit_rows(vector_committer, chunks(data_vec(data), n_cols),
                                    blinding_factors),
         blinding_factors |-> blinding_factors]

MaxDataLen == 4

\* len bytes, all different and none zero
Ramp(len) == [idx \in 1 .. len |-> (37 * idx) % 256]

\* The inputs: for every length up to MaxDataLen, bytes that are all
\* different, and the same bytes with the last one replaced by zero.
DataSamples ==
    {Ramp(len) : len \in 0 .. MaxDataLen}
        \cup {Ramp(len - 1) \o <<0>> : len \in 1 .. MaxDataLen}

SeedSamples ==
    {[idx \in 1 .. SCALAR_ELEM_BYTEWIDTH |-> 0], [idx \in 1 .. SCALAR_ELEM_BYTEWIDTH |-> idx]}

InitMatrix ==
    /\ \E num_generators \in 0 .. MaxN :
           /\ committer = new(num_generators, PUBLIC_STRING)
           /\ reader = reader_after_new(num_generators, PUBLIC_STRING)
    /\ prng = NoPrng
    /\ call = NoCall
    /\ prior = NoCall

\* compute_commitments(data, &committer, blinding_factor_seed)
ComputeCommitments(data, blinding_factor_seed) ==
    /\ prior' = call
    /\ UNCHANGED <<committer, reader>>
    /\ IF compute_commitments_panics(committer)
       THEN /\ call' = [op |-> "compute_commitments", data |-> data,
                        seed |-> blinding_factor_seed, panicked |-> TRUE,
                        commitment |-> <<>>, blinding_factors |-> <<>>]
            /\ UNCHANGED prng
       ELSE /\ call' = [op |-> "compute_commitments", data |-> data,
                        seed |-> blinding_factor_seed, panicked |-> FALSE,
                        commitment |->
                            compute_commitments(data, committer,
                                                blinding_factor_seed).commitment,
                        blinding_factors |->
                            compute_commitments(data, committer,
                                                blinding_factor_seed).blinding_factors]
            /\ prng' = prng_after(data, committer, blinding_factor_seed)

NextMatrix ==
    \E data \in DataSamples, blinding_factor_seed \in SeedSamples :
        ComputeCommitments(data, blinding_factor_seed)

SpecMatrix == InitMatrix /\ [][NextMatrix]_vars

Computed(record) == record.op = "compute_commitments" /\ ~record.panicked

\* the committer width N
Width == Len(committer.generators)

IsPowerOfTwo(n) == \E k \in 0 .. n : n = 2 ^ k

\* the last call returned, for data whose length is a power of two and a multiple of N
ComputedInShape ==
    /\ Computed(call)
    /\ IsPowerOfTwo(Len(call.data))
    /\ Len(call.data) % Width = 0

\* C2: for data whose length is a power of two and a multiple of N, every row
\* r < len(data)/N has commitment[r] = vector_commit(data[r*N .. (r+1)*N],
\* blinding_factors[r]).
C2_RowsCommittedUnderOwnBlinding ==
    ComputedInShape
        => \A row \in 1 .. Len(call.data) \div Width :
               /\ row <= Len(call.commitment)
               /\ row <= Len(call.blinding_factors)
               /\ call.commitment[row]
                      = vector_commit(committer,
                                      SubSeq(call.data, (row - 1) * Width + 1, row * Width),
                                      call.blinding_factors[row])

C2_Witness ==
    /\ ComputedInShape
    /\ Width = 2
    /\ Len(call.data) \div Width = 2
    /\ call.blinding_factors[1] # call.blinding_factors[2]
    /\ \A row \in 1 .. 2 :
           call.commitment[row]
               = vector_commit(committer,
                               SubSeq(call.data, (row - 1) * Width + 1, row * Width),
                               call.blinding_factors[row])

\* C3: for data whose length is a power of two and a multiple of N, the
\* commitment and the blinding_factors both have length len(data)/N.
C3_OutputLengths ==
    ComputedInShape
        => /\ Len(call.commitment) = Len(call.data) \div Width
           /\ Len(call.blinding_factors) = Len(call.data) \div Width

C3_Witness ==
    /\ ComputedInShape
    /\ Width = 2
    /\ Len(call.data) = 4
    /\ Len(call.commitment) = 2
    /\ Len(call.blinding_factors) = 2

\* C4 as stated: when the length of the data is not a multiple of the width N,
\* compute_commitments fails an assertion and returns no commitment.
C4_AssertsLengthMultipleOfWidth ==
    (/\ call.op = "compute_commitments"
     /\ Width > 0
     /\ Len(call.data) % Width # 0)
        => call.panicked /\ call.commitment = <<>>

LeastPowerOfTwoAtLeast(n) ==
    CHOOSE p \in 1 .. 2 * n + 1 :
        /\ IsPowerOfTwo(p)
        /\ p >= n
        /\ \A smaller \in 1 .. p - 1 : ~(IsPowerOfTwo(smaller) /\ smaller >= n)

\* the data followed by zero bytes up to the next power of two of its length
ZeroPadded(data) ==
    data \o [idx \in 1 .. LeastPowerOfTwoAtLeast(Len(data)) - Len(data) |-> 0]

\* C27: compute_commitments(data) returns the commitment and the blinding
\* factors of compute_commitments(data followed by zero bytes up to the next
\* power of two of its length), same committer and same seed.
C27_PadsToPowerOfTwo ==
    /\ Computed(call)
           => /\ call.commitment
                     = compute_commitments(ZeroPadded(call.data), committer,
                                           call.seed).commitment
              /\ call.blinding_factors
                     = compute_commitments(ZeroPadded(call.data), committer,
                                           call.seed).blinding_factors
    /\ (/\ Computed(prior)
        /\ Computed(call)
        /\ prior.seed = call.seed
        /\ call.data = ZeroPadded(prior.data))
           => /\ prior.commitment = call.commitment
              /\ prior.blinding_factors = call.blinding_factors

C27_Witness ==
    /\ Computed(prior)
    /\ Computed(call)
    /\ prior.seed = call.seed
    /\ Len(prior.data) = 3
    /\ Len(call.data) = 4
    /\ call.data = ZeroPadded(prior.data)
    /\ Width = 2
    /\ Len(call.commitment) = 2
    /\ prior.commitment = call.commitment
    /\ prior.blinding_factors = call.blinding_factors

\* the number of rows the zero-padded data fills, the last one possibly in part
RowsOfPadded(data) == (Len(ZeroPadded(data)) + Width - 1) \div Width

\* C28 as stated: the rows committed cover the whole zero-padded input: the
\* number of commitments times N is the padded length, and every N-byte chunk
\* of the padded data has its own commitment.
C28_NoByteUncommitted ==
    Computed(call)
        => /\ Len(call.commitment) * Width = Len(ZeroPadded(call.data))
           /\ \A row \in 1 .. RowsOfPadded(call.data) :
                  /\ row <= Len(call.commitment)
                  /\ call.commitment[row]
                         = vector_commit(committer,
                                         SubSeq(ZeroPadded(call.data),
                                                (row - 1) * Width + 1, row * Width),
                                         call.blinding_factors[row])

\* the rng after k calls of Scalar::rand
RECURSIVE prng_after_scalars(_, _)
prng_after_scalars(rng, k) ==
    IF k = 0 THEN rng ELSE scalar_rand(prng_after_scalars(rng, k - 1)).rng

\* the scalar that call number k of Scalar::rand returns on the stream of rng
nth_scalar(rng, k) == scalar_rand(prng_after_scalars(rng, k - 1)).scalar

\* one sequence is the beginning of the other
IsPrefix(s1, s2) == Len(s1) <= Len(s2) /\ s1 = SubSeq(s2, 1, Len(s1))

\* C29: for a fixed seed the blinding factors do not depend on the content of
\* the data: blinding factor r is the r-th scalar drawn from the stream of the
\* seed, two inputs with the same number of rows get the same blinding
\* factors, and with different numbers of rows the shorter sequence is the
\* beginning of the longer.
C29_BlindingFactorsIgnoreData ==
    /\ Computed(call)
           => \A row \in 1 .. Len(call.blinding_factors) :
                  call.blinding_factors[row] = nth_scalar(from_seed(call.seed), row)
    /\ (Computed(prior) /\ Computed(call) /\ prior.seed = call.seed)
           => \/ IsPrefix(prior.blinding_factors, call.blinding_factors)
              \/ IsPrefix(call.blinding_factors, prior.blinding_factors)

C29_Witness ==
    /\ Computed(prior)
    /\ Computed(call)
    /\ prior.seed = call.seed
    /\ prior.data # call.data
    /\ Len(prior.blinding_factors) = 1
    /\ Len(call.blinding_factors) = 2
    /\ call.blinding_factors[1] # call.blinding_factors[2]
    /\ IsPrefix(prior.blinding_factors, call.blinding_factors)

(***************************************************************************)
(* Curve membership                                                        *)
(***************************************************************************)
MaxCoord == 5

MaxScalar == 12

\* The points tested: the identity, every triple (x, y, 1) with small
\* coordinates, on the curve or not, and the first multiples of the base point.
CurvePoints ==
    {zero}
        \cup {Pt(x, y, 1) : x \in 0 .. MaxCoord, y \in 0 .. MaxCoord}
        \cup {Mul(generator, k) : k \in 1 .. MaxScalar}

InitCurve ==
    /\ committer = NoCommitter
    /\ reader = NoReader
    /\ prng = NoPrng
    /\ call = NoCall
    /\ prior = NoCall

\* p.is_on_curve()
IsOnCurve(p) ==
    /\ prior' = call
    /\ call' = [op |-> "is_on_curve", point |-> p, panicked |-> FALSE,
                result |-> is_on_curve(p)]
    /\ UNCHANGED <<committer, reader, prng>>

NextCurve == \E p \in CurvePoints : IsOnCurve(p)

SpecCurve == InitCurve /\ [][NextCurve]_vars

\* y^2 = x^3 + b for the affine coordinates of a point that is not the identity
SatisfiesCurveEquation(p) ==
    LET x == affine_coordinates(p)[1]
        y == affine_coordinates(p)[2]
    IN  FqMul(y, y) = FqAdd(FqMul(FqMul(x, x), x), b)

\* C10 as stated: is_on_curve returns true for the identity, and for any other
\* point returns true exactly when y^2 = x^3 + b.
C10_IsOnCurveChecksEquation ==
    call.op = "is_on_curve"
        => call.result = (is_zero(call.point) \/ SatisfiesCurveEquation(call.point))

(***************************************************************************)
(* Coordinates and serialization of points                                 *)
(***************************************************************************)
MaxMultiple == 3

\* the identity, the first multiples of the base point as the group
\* operations leave them (z is 1 for the base point only), and their negatives
CodecPoints ==
    {zero}
        \cup {Mul(generator, k) : k \in 1 .. MaxMultiple}
        \cup {Neg(Mul(generator, k)) : k \in 1 .. MaxMultiple}

\* 65 bytes: a tag, x and y
Uncompressed(tag, x, y) ==
    <<tag>> \o to_bytes_le(x, COORD_BYTEWIDTH) \o to_bytes_le(y, COORD_BYTEWIDTH)

\* Encodings of pairs on the curve and off it under tag 0, and some of them
\* under tag 1.
UncompressedSamples ==
    {Uncompressed(0, x, y) : x \in {0, 1}, y \in {0, 2, 3, 4}}
        \cup {Uncompressed(1, x, y) : x \in {0, 1}, y \in {0, 2}}

\* 34 bytes: a tag, x and the last byte
Compressed(tag, x, last) == <<tag>> \o to_bytes_le(x, COORD_BYTEWIDTH) \o <<last>>

\* Under tag 0: an x with no point (0), an x whose smaller root is even (1) and
\* one whose smaller root is odd (2), with every last byte up to 3; some of
\* them under tag 1.
CompressedSamples ==
    {Compressed(0, x, last) : x \in {0, 1, 2}, last \in {0, 1, 2, 3}}
        \cup {Compressed(1, x, last) : x \in {0, 2}, last \in {0, 3}}

InitCodec ==
    /\ committer = NoCommitter
    /\ reader = NoReader
    /\ prng = NoPrng
    /\ call = NoCall
    /\ prior = NoCall

\* p.affine_coordinates() and p.projective_coordinates()
Coordinates(p) ==
    /\ prior' = call
    /\ call' = [op |-> "coordinates", point |-> p, panicked |-> FALSE,
                affine |-> affine_coordinates(p),
                projective |-> projective_coordinates(p)]
    /\ UNCHANGED <<committer, reader, prng>>

\* Bn256Point::from_bytes_uncompressed(&p.to_bytes_uncompressed())
ToFromBytesUncompressed(p) ==
    /\ prior' = call
    /\ call' = [op |-> "to_from_bytes_uncompressed", point |-> p,
                bytes |-> to_bytes_uncompressed(p),
                panicked |-> from_bytes_uncompressed_panics(to_bytes_uncompressed(p)),
                result |-> IF from_bytes_uncompressed_panics(to_bytes_uncompressed(p))
                           THEN zero
                           ELSE from_bytes_uncompressed(to_bytes_uncompressed(p))]
    /\ UNCHANGED <<committer, reader, prng>>

\* Bn256Point::from_bytes_compressed(&p.to_bytes_compressed())
ToFromBytesCompressed(p) ==
    /\ prior' = call
    /\ call' = [op |-> "to_from_bytes_compressed", point |-> p,
                bytes |-> to_bytes_compressed(p),
                panicked |-> from_bytes_compressed_panics(to_bytes_compressed(p)),
                result |-> IF from_bytes_compressed_panics(to_bytes_compressed(p))
                           THEN zero
                           ELSE from_bytes_compressed(to_bytes_compressed(p))]
    /\ UNCHANGED <<committer, reader, prng>>

\* Bn256Point::from_bytes_uncompressed(bytes)
FromBytesUncompressed(bytes) ==
    /\ prior' = call
    /\ call' = [op |-> "from_bytes_uncompressed", bytes |-> bytes,
                panicked |-> from_bytes_uncompressed_panics(bytes),
                result |-> IF from_bytes_uncompressed_panics(bytes) THEN zero
                           ELSE from_bytes_uncompressed(bytes)]
    /\ UNCHANGED <<committer, reader, prng>>

\* Bn256Point::from_bytes_compressed(bytes)
FromBytesCompressed(bytes) ==
    /\ prior' = call
    /\ call' = [op |-> "from_bytes_compressed", bytes |-> bytes,
                panicked |-> from_bytes_compressed_panics(bytes),
                result |-> IF from_bytes_compressed_panics(bytes) THEN zero
                           ELSE from_bytes_compressed(bytes)]
    /\ UNCHANGED <<committer, reader, prng>>

NextCodec ==
    \/ \E p \in CodecPoints : Coordinates(p)
    \/ \E p \in CodecPoints : ToFromBytesUncompressed(p)
    \/ \E p \in CodecPoints : ToFromBytesCompressed(p)
    \/ \E bytes \in UncompressedSamples : FromBytesUncompressed(bytes)
    \/ \E bytes \in CompressedSamples : FromBytesCompressed(bytes)

SpecCodec == InitCodec /\ [][NextCodec]_vars

\* the identity, or a point whose affine coordinates satisfy y^2 = x^3 + b
OnCurve(p) == is_zero(p) \/ SatisfiesCurveEquation(p)

\* C11 as stated: for every point of the curve, the identity included,
\* from_bytes_uncompressed(to_bytes_uncompressed(p)) does not panic and
\* returns a point equal to p.
C11_UncompressedRoundTrip ==
    (call.op = "to_from_bytes_uncompressed" /\ OnCurve(call.point))
        => ~call.panicked /\ PointEq(call.result, call.point)

\* C12 as stated: from_bytes_uncompressed returns a point only if it is the
\* identity or satisfies y^2 = x^3 + b; a 65-byte input with tag 0 whose
\* (x, y) is not on the curve makes it panic.
C12_UncompressedRejectsOffCurve ==
    call.op = "from_bytes_uncompressed"
        => /\ ~call.panicked => OnCurve(call.result)
           /\ (/\ Len(call.bytes) = UNCOMPRESSED_CURVE_POINT_BYTEWIDTH
               /\ call.bytes[1] = 0
               /\ ~SatisfiesCurveEquation(uncompressed_point(call.bytes)))
                  => call.panicked

\* C13: for every point p of the curve, the identity included,
\* from_bytes_compressed(to_bytes_compressed(p)) equals p.
C13_CompressedRoundTrip ==
    (call.op = "to_from_bytes_compressed" /\ OnCurve(call.point))
        => ~call.panicked /\ PointEq(call.result, call.point)

C13_Witness ==
    /\ call.op = "to_from_bytes_compressed"
    /\ ~call.panicked
    /\ call.point.z # 1
    /\ ~is_zero(call.point)
    /\ affine_coordinates(call.point)[2]
           = get_ys_from_x_unchecked(affine_coordinates(call.point)[1])[2]
    /\ PointEq(call.result, call.point)
    /\ prior.op = "to_from_bytes_compressed"
    /\ is_zero(prior.point)
    /\ ~prior.panicked
    /\ is_zero(prior.result)

\* C14 as stated: for tag 0, from_bytes_compressed returns the negated root
\* exactly when the parity of the canonical root differs from bit 0 of the
\* last byte, and the canonical root otherwise.
C14_SignFlipFollowsParityBit ==
    (call.op = "from_bytes_compressed" /\ ~call.panicked /\ call.bytes[1] = 0)
        => LET ys == get_ys_from_x_unchecked(compressed_x(call.bytes))
               disagrees == Parity(ys[1]) # call.bytes[34] % 2
           IN  call.result.y = (IF disagrees THEN ys[2] ELSE ys[1])

\* every byte of the encoding is 1
AllOnes(bytes, width) == bytes = [i \in 1 .. width |-> 1]

\* C15: the identity encodes to 34, respectively 65, bytes that are all 1;
\* both decoders return the identity for every input of the right width
\* whose first byte is 1, whatever the other bytes are.
C15_IdentityEncoding ==
    /\ (call.op = "to_from_bytes_compressed" /\ is_zero(call.point))
           => AllOnes(call.bytes, COMPRESSED_CURVE_POINT_BYTEWIDTH)
    /\ (call.op = "to_from_bytes_uncompressed" /\ is_zero(call.point))
           => AllOnes(call.bytes, UNCOMPRESSED_CURVE_POINT_BYTEWIDTH)
    /\ (call.op \in {"from_bytes_compressed", "from_bytes_uncompressed"}
            /\ call.bytes[1] = 1)
           => ~call.panicked /\ is_zero(call.result)

C15_Witness ==
    /\ call.op = "from_bytes_uncompressed"
    /\ call.bytes[1] = 1
    /\ call.bytes[2] = 0
    /\ ~call.panicked
    /\ is_zero(call.result)
    /\ prior.op = "to_from_bytes_uncompressed"
    /\ is_zero(prior.point)
    /\ AllOnes(prior.bytes, UNCOMPRESSED_CURVE_POINT_BYTEWIDTH)

\* C16: affine_coordinates is None exactly for the identity;
\* projective_coordinates is (0, 1, 0) for the identity and (x, y, 1), with
\* (x, y) the affine coordinates of the point, for every other point,
\* whatever its internal representation is.
C16_Coordinates ==
    call.op = "coordinates"
        => /\ call.affine = None <=> is_zero(call.point)
           /\ is_zero(call.point) => call.projective = <<0, 1, 0>>
           /\ ~is_zero(call.point)
                  => /\ call.projective = <<call.affine[1], call.affine[2], 1>>
                     /\ PointEq(Pt(call.affine[1], call.affine[2], 1), call.point)

C16_Witness ==
    /\ call.op = "coordinates"
    /\ ~is_zero(call.point)
    /\ call.point.z # 1
    /\ call.projective = <<call.affine[1], call.affine[2], 1>>
    /\ PointEq(Pt(call.affine[1], call.affine[2], 1), call.point)
    /\ prior.op = "coordinates"
    /\ is_zero(prior.point)
    /\ prior.affine = None
    /\ prior.projective = <<0, 1, 0>>

\* C30 as stated: every 34-byte string with tag 0 that from_bytes_compressed
\* accepts is the encoding of the point it decodes to, so no two tag-0 strings
\* decode to one point.
C30_CompressedDecodingCanonical ==
    (/\ call.op = "from_bytes_compressed"
     /\ ~call.panicked
     /\ call.bytes[1] = 0)
        => to_bytes_compressed(call.result) = call.bytes

(***************************************************************************)
(* Serialized commitments                                                  *)
(***************************************************************************)
\* the matrix has 2^LogNumCols columns
LogNumCols == 1

\* PedersenCommitter::new(1 << LOG_NUM_COLS, PUBLIC_STRING)
OrbCommitter == new(2 ^ LogNumCols, PUBLIC_STRING)

\* flat_map(...).collect_vec(): the byte strings one after the other
RECURSIVE flat_map(_, _)
flat_map(strings, n) ==
    IF n = 0 THEN <<>> ELSE flat_map(strings, n - 1) \o strings[n]

\* commitment.iter().flat_map(|element| element.to_bytes_compressed())
serialize_commitment(commitment) ==
    flat_map([i \in 1 .. Len(commitment) |-> to_bytes_compressed(commitment[i])],
             Len(commitment))

\* blinding_factors.iter().flat_map(|element| element.into_bigint().to_bytes_le())
serialize_blinding_factors(blinding_factors) ==
    flat_map([i \in 1 .. Len(blinding_factors) |->
                 to_bytes_le(blinding_factors[i], SCALAR_ELEM_BYTEWIDTH)],
             Len(blinding_factors))

\* compute_commitments_binary_outputs, with the outputs before serialization
compute_commitments_binary_outputs(data, blinding_factor_seed) ==
    LET output == compute_commitments(data, OrbCommitter, blinding_factor_seed)
    IN  [commitment |-> output.commitment,
         blinding_factors |-> output.blinding_factors,
         commitment_serialized |-> serialize_commitment(output.commitment),
         blinding_factors_serialized |->
             serialize_blinding_factors(output.blinding_factors)]

\* a deserialization that leaves out the elements it cannot decode
deserialize_commitment_skipping(bytes) ==
    LET decodable == SelectSeq(chunks(bytes, COMPRESSED_CURVE_POINT_BYTEWIDTH),
                               LAMBDA element : ~from_bytes_compressed_panics(element))
    IN  [panicked |-> FALSE,
         commitment |-> [i \in 1 .. Len(decodable) |-> from_bytes_compressed(decodable[i])]]

\* deserialize_commitment_from_bytes_compressed: a panic of from_bytes_compressed
\* on any chunk is a panic of the whole call
deserialize_commitment_from_bytes_compressed(bytes) ==
    LET elements == chunks(bytes, COMPRESSED_CURVE_POINT_BYTEWIDTH)
        panics == \E i \in 1 .. Len(elements) : from_bytes_compressed_panics(elements[i])
    IN  [panicked |-> panics,
         commitment |-> IF panics THEN <<>>
                        ELSE [i \in 1 .. Len(elements) |-> from_bytes_compressed(elements[i])]]

\* 256^e mod R
RECURSIVE FrPow256(_)
FrPow256(e) == IF e = 0 THEN 1 ELSE (256 * FrPow256(e - 1)) % R

\* the powers 256^(i-1) mod R, the weights of the little-endian bytes
Pow256R == [i \in 1 .. SCALAR_ELEM_BYTEWIDTH |-> FrPow256(i - 1)]

\* the bytes read most significant first
FrFromBeBytesModOrder(bytes) ==
    SeqSum([i \in 1 .. Len(bytes) |-> (bytes[i] * Pow256R[Len(bytes) + 1 - i]) % R],
           1, Len(bytes)) % R

\* C::Scalar::from_le_bytes_mod_order: the little-endian value of the bytes,
\* reduced mod R
FrFromLeBytesModOrder(bytes) ==
    SeqSum([i \in 1 .. Len(bytes) |-> (bytes[i] * Pow256R[i]) % R],
           1, Len(bytes)) % R

\* deserialize_blinding_factors_from_bytes_compressed: no chunk makes it panic
deserialize_blinding_factors_from_bytes_compressed(bytes) ==
    LET elements == chunks(bytes, SCALAR_ELEM_BYTEWIDTH)
    IN  [panicked |-> FALSE,
         blinding_factors |->
             [i \in 1 .. Len(elements) |-> FrFromLeBytesModOrder(elements[i])]]

\* the data committed to
ImageSamples == {Ramp(len) : len \in 0 .. MaxDataLen}

\* Serialized commitments: two points; a point and an x with no point, in
\* both orders; a byte too many; a byte too few.
CommitmentBytesSamples ==
    { Compressed(0, 1, 0) \o Compressed(0, 2, 1),
      Compressed(0, 1, 0) \o Compressed(0, 0, 0),
      Compressed(0, 0, 0) \o Compressed(0, 1, 0),
      Compressed(0, 1, 0) \o <<0>>,
      SubSeq(Compressed(0, 1, 0), 1, 33) }

\* Serialized blinding factors: two scalars; a byte too many; a byte too few.
BlindingBytesSamples ==
    { to_bytes_le(5, SCALAR_ELEM_BYTEWIDTH) \o to_bytes_le(7, SCALAR_ELEM_BYTEWIDTH),
      to_bytes_le(5, SCALAR_ELEM_BYTEWIDTH) \o <<9>>,
      SubSeq(to_bytes_le(5, SCALAR_ELEM_BYTEWIDTH), 1, SCALAR_ELEM_BYTEWIDTH - 1) }

InitSerial ==
    /\ committer = NoCommitter
    /\ reader = NoReader
    /\ prng = NoPrng
    /\ call = NoCall
    /\ prior = NoCall

\* compute_commitments_binary_outputs(data, blinding_factor_seed)
ComputeCommitmentsBinaryOutputs(data, blinding_factor_seed) ==
    /\ prior' = call
    /\ committer' = OrbCommitter
    /\ reader' = reader_after_new(2 ^ LogNumCols, PUBLIC_STRING)
    /\ prng' = prng_after(data, OrbCommitter, blinding_factor_seed)
    /\ call' = [op |-> "compute_commitments_binary_outputs", data |-> data,
                seed |-> blinding_factor_seed, panicked |-> FALSE,
                output |-> compute_commitments_binary_outputs(data, blinding_factor_seed)]

\* deserialize_commitment_from_bytes_compressed(bytes)
DeserializeCommitment(bytes) ==
    /\ prior' = call
    /\ call' = [op |-> "deserialize_commitment", bytes |-> bytes,
                panicked |-> deserialize_commitment_from_bytes_compressed(bytes).panicked,
                commitment |->
                    deserialize_commitment_from_bytes_compressed(bytes).commitment]
    /\ UNCHANGED <<committer, reader, prng>>

\* deserialize_blinding_factors_from_bytes_compressed(bytes)
DeserializeBlindingFactors(bytes) ==
    /\ prior' = call
    /\ call' = [op |-> "deserialize_blinding_factors", bytes |-> bytes,
                panicked |->
                    deserialize_blinding_factors_from_bytes_compressed(bytes).panicked,
                blinding_factors |->
                    deserialize_blinding_factors_from_bytes_compressed(bytes)
                        .blinding_factors]
    /\ UNCHANGED <<committer, reader, prng>>

\* the serialized outputs of the last call, if it produced any
CommitmentInFlight ==
    IF call.op = "compute_commitments_binary_outputs"
    THEN {call.output.commitment_serialized} ELSE {}

BlindingFactorsInFlight ==
    IF call.op = "compute_commitments_binary_outputs"
    THEN {call.output.blinding_factors_serialized} ELSE {}

NextSerial ==
    \/ \E data \in ImageSamples, blinding_factor_seed \in SeedSamples :
           ComputeCommitmentsBinaryOutputs(data, blinding_factor_seed)
    \/ \E bytes \in CommitmentBytesSamples \cup CommitmentInFlight :
           DeserializeCommitment(bytes)
    \/ \E bytes \in BlindingBytesSamples \cup BlindingFactorsInFlight :
           DeserializeBlindingFactors(bytes)

SpecSerial == InitSerial /\ [][NextSerial]_vars

\* C18 as stated: deserialize_commitment_from_bytes_compressed fails when the
\* length of the bytes is not a multiple of 34, and
\* deserialize_blinding_factors_from_bytes_compressed fails when it is not a
\* multiple of 32; neither returns a vector.
C18_LengthNotMultipleOfWidthFails ==
    /\ (/\ call.op = "deserialize_commitment"
        /\ Len(call.bytes) % COMPRESSED_CURVE_POINT_BYTEWIDTH # 0)
           => call.panicked
    /\ (/\ call.op = "deserialize_blinding_factors"
        /\ Len(call.bytes) % SCALAR_ELEM_BYTEWIDTH # 0)
           => call.panicked

\* some 34-byte element of the bytes has tag 0 and an x for which x^3 + b has
\* no square root
HasElementWithoutRoot(bytes) ==
    \E i \in 1 .. Len(bytes) \div COMPRESSED_CURVE_POINT_BYTEWIDTH :
        LET element == SubSeq(bytes, (i - 1) * COMPRESSED_CURVE_POINT_BYTEWIDTH + 1,
                              i * COMPRESSED_CURVE_POINT_BYTEWIDTH)
        IN  /\ element[1] = 0
            /\ FqSqrt(FqAdd(FqMul(FqMul(compressed_x(element), compressed_x(element)),
                                  compressed_x(element)), b)) = NoRoot

\* C19: if some 34-byte element of a serialized commitment has tag 0 and an
\* x for which x^3 + b has no square root, the deserialization fails as a
\* whole and returns no points.
C19_InvalidElementFailsWhole ==
    (call.op = "deserialize_commitment" /\ HasElementWithoutRoot(call.bytes))
        => call.panicked /\ call.commitment = <<>>

C19_Witness ==
    /\ call.op = "deserialize_commitment"
    /\ Len(call.bytes) = 2 * COMPRESSED_CURVE_POINT_BYTEWIDTH
    /\ ~from_bytes_compressed_panics(SubSeq(call.bytes, 1, COMPRESSED_CURVE_POINT_BYTEWIDTH))
    /\ HasElementWithoutRoot(call.bytes)
    /\ call.panicked
    /\ call.commitment = <<>>

\* the last call deserialized the commitment the call before it serialized
DeserializedCommitmentOfPrior ==
    /\ prior.op = "compute_commitments_binary_outputs"
    /\ call.op = "deserialize_commitment"
    /\ call.bytes = prior.output.commitment_serialized

DeserializedBlindingFactorsOfPrior ==
    /\ prior.op = "compute_commitments_binary_outputs"
    /\ call.op = "deserialize_blinding_factors"
    /\ call.bytes = prior.output.blinding_factors_serialized

\* C20: deserializing the serialized commitment, respectively the serialized
\* blinding factors, of compute_commitments_binary_outputs yields a sequence
\* equal to the commitment, respectively the blinding factors, it computed.
C20_EndToEndRoundTrip ==
    /\ DeserializedCommitmentOfPrior
           => /\ ~call.panicked
              /\ Len(call.commitment) = Len(prior.output.commitment)
              /\ \A i \in 1 .. Len(call.commitment) :
                     PointEq(call.commitment[i], prior.output.commitment[i])
    /\ DeserializedBlindingFactorsOfPrior
           => /\ ~call.panicked
              /\ call.blinding_factors = prior.output.blinding_factors

C20_Witness ==
    /\ DeserializedBlindingFactorsOfPrior
    /\ Len(prior.output.blinding_factors) >= 2
    /\ Len(prior.output.commitment) >= 2
    /\ \E i \in 1 .. Len(prior.output.commitment) : prior.output.commitment[i].z # 1
    /\ Len(call.bytes) = SCALAR_ELEM_BYTEWIDTH * Len(prior.output.blinding_factors)
    /\ call.blinding_factors = prior.output.blinding_factors
    /\ deserialize_commitment_from_bytes_compressed(prior.output.commitment_serialized)
           .commitment # <<>>

(***************************************************************************)
(* The rejection loop of PrimeOrderCurve::random, pass by pass             *)
(***************************************************************************)
MaxSeedByte == 15

MaxCalls == 3

\* the 32-byte seeds the stream is started from
RandomSeeds ==
    {WithByte(public_string_array(PUBLIC_STRING), 1, byte) : byte \in 0 .. MaxSeedByte}

Looping == call.op = "random" /\ call.pc = "loop"

Returned == call.op = "random" /\ call.pc = "returned"

\* a fresh reader, as sample_generators makes it, and no call yet
InitRandom ==
    /\ committer = NoCommitter
    /\ \E seed \in RandomSeeds : reader = xof_result(Shake256(seed))
    /\ prng = NoPrng
    /\ call = NoCall
    /\ prior = NoCall

\* C::random(&mut reader_wrapper) is entered: sample_generators calls it once
\* per generator, each call after the one before has returned.
RandomCall ==
    /\ ~Looping
    /\ (IF call.op = "random" THEN call.n ELSE 0) < MaxCalls
    /\ prior' = call
    /\ call' = [op |-> "random", pc |-> "loop", panicked |-> FALSE,
                n |-> (IF call.op = "random" THEN call.n ELSE 0) + 1,
                start |-> reader, attempts |-> 0,
                yparity_wanted |-> 0, point |-> zero]
    /\ UNCHANGED <<committer, reader, prng>>

\* one pass of the loop: the draws, then the return or the next pass
RandomAttempt ==
    /\ Looping
    /\ LET t == random_attempt(reader)
       IN  /\ reader' = t.rd
           /\ call' = [call EXCEPT
                           !.pc = IF t.found THEN "returned" ELSE "loop",
                           !.attempts = call.attempts + 1,
                           !.yparity_wanted =
                               next_u32(advance(reader, X_DRAW_BYTES)) % 2,
                           !.point = t.point]
    /\ UNCHANGED <<committer, prng, prior>>

NextRandom == RandomCall \/ RandomAttempt

SpecRandom == InitRandom /\ [][NextRandom]_vars

\* The loop is not suspended: a pass that can run does run.  This is weak
\* fairness of RandomAttempt, WF_vars(RandomAttempt), written out: a pass is
\* enabled exactly while the call is in its loop, and it always moves the
\* reader.
RandomAttemptFair == []<>(~Looping) \/ []<><<RandomAttempt>>_vars

LiveSpecRandom == SpecRandom /\ RandomAttemptFair

\* C24: every call of Curve::random eventually returns (the streams drawn from
\* yield again and again an x for which x^3 + b has a square root), and the
\* point returned is not the identity, has z = 1, and has the y-coordinate of
\* the parity that was drawn.
C24_RandomTerminates ==
    /\ Looping ~> Returned
    /\ [](Returned =>
            /\ ~is_zero(call.point)
            /\ call.point.z = 1
            /\ Parity(call.point.y) = call.yparity_wanted
            /\ get_ys_from_x_unchecked(call.point.x) # None
            /\ call.point = random(call.start).point)

C24_Witness ==
    /\ Returned
    /\ call.attempts >= 2
    /\ call.point.z = 1
    /\ Parity(call.point.y) = call.yparity_wanted
    /\ call.yparity_wanted = 1

\* C25 as stated: a pass draws 64 bytes for x, and draws the value that picks
\* the sign of y only if x^3 + b has a square root, so a call that returns
\* after k passes has advanced the stream by 64 k bytes and one u32.
C25_RejectedAttemptConsumesOnlyX ==
    Returned
        => reader.pos = call.start.pos + X_DRAW_BYTES * call.attempts + U32_BYTES

(***************************************************************************)
(* The whole program: committers are built, then used                      *)
(***************************************************************************)
Init == InitGen

Next ==
    \/ NextGen
    \/ committer # NoCommitter /\ NextCommit
    \/ committer # NoCommitter /\ NextMatrix
    \/ NextCurve
    \/ NextCodec
    \/ NextSerial
    \/ committer # NoCommitter /\ NextPermute
    \/ NextRandom

Spec == Init /\ [][Next]_vars

=============================================================================
